---- MODULE Spec2Model ----
(***************************************************************************)
(* Credential and session-trust core of go-server (asset-locator):         *)
(* the SignUp / Login / Logout / ForgotPassword / ResetPassword handlers   *)
(* over the credential store, the reset-token helpers, the signed-token    *)
(* (JWT) issue / verify functions with the Authorization-header entry      *)
(* point, and the order in which the process reads its secret at startup.  *)
(*                                                                         *)
(* Time is a discrete clock `now`; Hour ticks of it are the code's         *)
(* time.Hour.  Every handler is a sequence of steps, one per store call,   *)
(* run by a request slot, so that requests interleave at the store as      *)
(* goroutines do.  A request is served within one tick of the clock.       *)
(***************************************************************************)
EXTENDS Integers, Sequences, FiniteSets, TLC

\* ------------------------------------------------------------------ bounds
MaxTime == 3
MaxIssue == 2
NumSlots == 2
MaxJwt == 1

\* time.Hour (the validity of a signed token and of a reset token, and the
\* duration IsTokenExpired subtracts), in ticks of the model clock
Hour == 1

\* ------------------------------------------------------------------ values
AdminEmail == "gowithvikash@gmail.com"
Emails == {AdminEmail, "a@x.com"}
Slots == 1..NumSlots

\* the empty string, as a reset token (a token is the encoding of a tuple)
NoToken == <<>>
\* SQL NULL of the reset_token_expiry column
NoExpiry == <<>>
\* a well-formed token string that was never issued
GarbageToken == <<"zz", 0, 0>>

VARIABLES
    now,        \* the wall clock, in ticks
    users,      \* the credential store: email -> row (id = 0: no such row)
    slots,      \* the requests in flight: slot -> handler frame
    nextRand,   \* how many 32-byte draws crypto/rand has served
    mailbox,    \* reset tokens mailed by answered ForgotPassword requests, in order
    consumed,   \* reset tokens for which a ResetPassword answered 200
    jwtSecret,  \* the package variable jwtSecret
    jwtIssued,  \* signed tokens GenerateJWTToken has handed out (to clients)
    dropped,    \* issued tokens whose cookie a Logout has told the browser to clear
    vSeen,      \* the last call of a token-checking function and its result
    setLog,     \* the successful SetResetToken calls, in the order the store served them
    env,        \* JWT_SECRET in the process environment (<<>>: not set)
    dotenv,     \* JWT_SECRET in the .env file (<<>>: no such file or no such line)
    boot        \* the startup steps the process has run, in order

vars == <<now, users, slots, nextRand, mailbox, consumed,
          jwtSecret, jwtIssued, dropped, vSeen, setLog, env, dotenv, boot>>
storeVars == <<users, slots, nextRand, mailbox, consumed, setLog>>
jwtVars == <<jwtSecret, jwtIssued, dropped, vSeen>>
bootVars == <<env, dotenv, boot>>

\* ------------------------------------------------------------ the store
NoRow == [id |-> 0, hash |-> <<>>, role |-> "", resetToken |-> NoToken,
          resetExpiry |-> NoExpiry]

Registered == {e \in Emails : users[e].id # 0}

EmailOfId(id) == CHOOSE e \in Emails : users[e].id = id

\* utils.HashPassword: a one-way image of the plaintext
HashPassword(p) == <<"bcrypt", p>>

\* utils.VerifyPassword: the stored hash is a hash of the plaintext
VerifyPassword(p, hash) == hash = HashPassword(p)

\* db.GetUserByEmailID: found iff a row with that email exists
GetUserByEmailID(email) == email \in Registered

\* db.RegisterUser: insert a row with the next serial id (the email is unique:
\* the handler refuses an insert for an email that has a row)
RegisterUser(email, hash, role) ==
    [users EXCEPT ![email] = [id |-> Cardinality(Registered) + 1, hash |-> hash,
                              role |-> role, resetToken |-> NoToken,
                              resetExpiry |-> NoExpiry]]

\* db.SetResetToken: overwrite the row's token and expiry (last write wins)
SetResetToken(id, token, expiry) ==
    [users EXCEPT ![EmailOfId(id)].resetToken = token,
                  ![EmailOfId(id)].resetExpiry = <<expiry>>]

\* db.UpdateUserPassword
UpdateUserPassword(id, hash) ==
    [users EXCEPT ![EmailOfId(id)].hash = hash]

\* db.ClearResetToken: clear the row's token and expiry
ClearResetToken(id) ==
    [users EXCEPT ![EmailOfId(id)].resetToken = NoToken,
                  ![EmailOfId(id)].resetExpiry = NoExpiry]

\* ------------------------------------------------- reset-token helpers
\* GeneratePasswordResetToken: base64url(email ++ time.Now().String() ++ 32 random bytes)
GeneratePasswordResetToken(email, t, rnd) == <<email, t, rnd>>

\* IsTokenExpired with the two times of the comparison exchanged
IsTokenExpired_Swapped(tokenExpiry) == now - Hour < tokenExpiry

\* IsTokenExpired: tokenExpiry.Before(time.Now().Add(-1h))
IsTokenExpired(tokenExpiry) == tokenExpiry < now - Hour

\* db.VerifyResetToken: the row holding the token, unless its expiry has passed
ResetTokenOwners(token) ==
    {e \in Registered : users[e].resetToken = token}

VerifyResetTokenOk(token) ==
    \E e \in ResetTokenOwners(token) : ~IsTokenExpired(users[e].resetExpiry[1])

\* ------------------------------------------------------ request frames
\* The locals of a handler run: kind and pc say which handler and where it is;
\* email, password and token are the request's inputs (token also the token
\* ForgotPassword generated); expiry is expiryTime, uid is user.ID; status and
\* msg are the response.  The other fields record history for the properties:
\* late / stale: the token was already consumed / superseded on arrival;
\* verified, vAt, vExp: VerifyResetToken succeeded, when, and the expiry it read;
\* cur: on VerifyResetToken the token was stored and the clock before its
\* expiry (and the read did not fail); wrote: UpdateUserPassword succeeded.
\* Login: found, hash, role are the user GetUserByEmailID returned; jwt is the
\* token of the response body and cookie the Set-Cookie header.
\* writes counts the response writes (c.JSON, c.Redirect) of the request.
\* SignUp: failed says that GetUserByEmailID failed in the store (it returned
\* an error other than "no such user") and the handler went on.
\* GetCurrentUser: jwt is the value of the jwt-token cookie, valid what
\* VerifyJWTToken said of it, email the user_email claim.
NoCookie == [Name |-> "", Value |-> <<>>, Expires |-> 0, Path |-> "",
             SameSite |-> "", HttpOnly |-> FALSE, Secure |-> FALSE]

Idle == [kind |-> "idle", pc |-> "idle", email |-> "", password |-> "",
         token |-> NoToken, expiry |-> 0, uid |-> 0, status |-> 0, msg |-> "",
         late |-> FALSE, stale |-> FALSE, cur |-> FALSE, verified |-> FALSE,
         vAt |-> 0, vExp |-> 0, wrote |-> FALSE,
         found |-> FALSE, hash |-> <<>>, role |-> "", jwt |-> <<>>,
         cookie |-> NoCookie, writes |-> 0, valid |-> FALSE, failed |-> FALSE]

\* c.JSON(status, message): the handler answers and returns; a status that was
\* written before stays
Respond(f, st, m) ==
    [f EXCEPT !.pc = "done", !.status = IF f.writes = 0 THEN st ELSE f.status,
              !.msg = m, !.writes = f.writes + 1]

\* c.Redirect(status, location): the status line and the Location header are written
Redirect(f, st) == [f EXCEPT !.status = st, !.writes = f.writes + 1]

Mailed == {mailbox[i] : i \in 1..Len(mailbox)}

\* a mailed token after which a later ForgotPassword for the same user was answered
Superseded(token) ==
    \E i, j \in 1..Len(mailbox) :
        i < j /\ mailbox[i] = token /\ mailbox[j] # token /\ mailbox[j][1] = token[1]

\* a handler that has answered returns before anything else happens
NoneDone == \A q \in Slots : slots[q].pc # "done"

\* no request is being served
Quiet == \A q \in Slots : slots[q].kind = "idle"

\* slot r runs handler kind and is about to take step pc
At(r, kind, pc) == NoneDone /\ slots[r].kind = kind /\ slots[r].pc = pc

\* a request is served by the first free slot
FreeSlot(r) ==
    /\ NoneDone
    /\ slots[r].kind = "idle"
    /\ \A q \in Slots : q < r => slots[q].kind # "idle"

\* ------------------------------------------------------------- SignUp
\* ShouldBindJSON: every field is required
SU_Start(r, email, password) ==
    /\ FreeSlot(r)
    /\ slots' = [slots EXCEPT ![r] =
          IF email = "" \/ password = ""
          THEN Respond([Idle EXCEPT !.kind = "signup"], 400, "Invalid form data")
          ELSE [Idle EXCEPT !.kind = "signup", !.pc = "su_get",
                            !.email = email, !.password = password]]
    /\ UNCHANGED <<now, users, nextRand, mailbox, consumed, setLog, jwtVars, bootVars>>

\* GetUserByEmailID: any error counts as "no such user"
SU_Get(r) ==
    /\ At(r, "signup", "su_get")
    /\ \E dbErr \in BOOLEAN :
          slots' = [slots EXCEPT ![r] =
             IF GetUserByEmailID(slots[r].email) /\ ~dbErr
             THEN Respond(@, 409, "User with this email already exists")
             ELSE [@ EXCEPT !.pc = "su_register", !.failed = dbErr]]
    /\ UNCHANGED <<now, users, nextRand, mailbox, consumed, setLog, jwtVars, bootVars>>

\* role, HashPassword, RegisterUser
SU_Register(r) ==
    /\ At(r, "signup", "su_register")
    /\ LET f == slots[r]
           role == IF f.email = AdminEmail THEN "admin" ELSE "general"
       IN \E hashErr, dbErr \in BOOLEAN :
            IF hashErr
            THEN /\ slots' = [slots EXCEPT ![r] = Respond(f, 500, "Failed to hash password")]
                 /\ UNCHANGED users
            ELSE IF dbErr \/ f.email \in Registered
            THEN /\ slots' = [slots EXCEPT ![r] = Respond(f, 500, "Failed to create user")]
                 /\ UNCHANGED users
            ELSE /\ users' = RegisterUser(f.email, HashPassword(f.password), role)
                 /\ slots' = [slots EXCEPT ![r] =
                                 Respond(f, 200, "User registered successfully")]
    /\ UNCHANGED <<now, nextRand, mailbox, consumed, setLog, jwtVars, bootVars>>

\* ----------------------------------------------------- ForgotPassword
\* ForgotPassword requests that have not drawn their random bytes yet (at most
\* MaxIssue tokens are generated)
IssuesPending ==
    Cardinality({s \in Slots : slots[s].kind = "forgot"
                                /\ slots[s].pc \in {"fp_get", "fp_gen"}})

FP_Start(r, email) ==
    /\ FreeSlot(r)
    /\ nextRand + IssuesPending < MaxIssue
    /\ slots' = [slots EXCEPT ![r] =
          IF email = ""
          THEN Respond([Idle EXCEPT !.kind = "forgot"], 400, "Invalid input data")
          ELSE [Idle EXCEPT !.kind = "forgot", !.pc = "fp_get", !.email = email]]
    /\ UNCHANGED <<now, users, nextRand, mailbox, consumed, setLog, jwtVars, bootVars>>

FP_Get(r) ==
    /\ At(r, "forgot", "fp_get")
    /\ \E dbErr \in BOOLEAN :
          slots' = [slots EXCEPT ![r] =
             IF GetUserByEmailID(slots[r].email) /\ ~dbErr
             THEN [@ EXCEPT !.pc = "fp_gen", !.uid = users[slots[r].email].id]
             ELSE Respond(@, 404, "User not found")]
    /\ UNCHANGED <<now, users, nextRand, mailbox, consumed, setLog, jwtVars, bootVars>>

\* GeneratePasswordResetToken (rand.Read may fail), expiryTime := now + 1 hour
FP_Gen(r) ==
    /\ At(r, "forgot", "fp_gen")
    /\ \E randErr \in BOOLEAN :
          IF randErr
          THEN /\ slots' = [slots EXCEPT ![r] =
                               Respond(@, 500, "Failed to generate reset token")]
               /\ UNCHANGED nextRand
          ELSE /\ slots' = [slots EXCEPT ![r] =
                      [@ EXCEPT !.pc = "fp_set",
                                !.token = GeneratePasswordResetToken(
                                              slots[r].email, now, nextRand + 1),
                                !.expiry = now + Hour]]
               /\ nextRand' = nextRand + 1
    /\ UNCHANGED <<now, users, mailbox, consumed, setLog, jwtVars, bootVars>>

\* FP_Set that writes the token only when the row holds none
FP_Set_KeepOld(r) ==
    /\ At(r, "forgot", "fp_set")
    /\ LET f == slots[r]
       IN /\ users' = IF users[EmailOfId(f.uid)].resetToken = NoToken
                      THEN SetResetToken(f.uid, f.token, f.expiry)
                      ELSE users
          /\ slots' = [slots EXCEPT ![r].pc = "fp_mail"]
          /\ setLog' = Append(setLog, <<f.uid, f.token, f.expiry>>)
    /\ UNCHANGED <<now, nextRand, mailbox, consumed, jwtVars, bootVars>>

\* FP_Set that goes on to the mail whatever SetResetToken answered
FP_Set_IgnoreErr(r) ==
    /\ At(r, "forgot", "fp_set")
    /\ LET f == slots[r]
       IN \E dbErr \in BOOLEAN :
            IF dbErr
            THEN UNCHANGED <<users, setLog>>
            ELSE /\ users' = SetResetToken(f.uid, f.token, f.expiry)
                 /\ setLog' = Append(setLog, <<f.uid, f.token, f.expiry>>)
    /\ slots' = [slots EXCEPT ![r].pc = "fp_mail"]
    /\ UNCHANGED <<now, nextRand, mailbox, consumed, jwtVars, bootVars>>

\* FP_Set that writes the token and leaves the expiry as it is
FP_Set_TokenOnly(r) ==
    /\ At(r, "forgot", "fp_set")
    /\ LET f == slots[r]
       IN /\ users' = [users EXCEPT ![EmailOfId(f.uid)].resetToken = f.token]
          /\ slots' = [slots EXCEPT ![r].pc = "fp_mail"]
          /\ setLog' = Append(setLog, <<f.uid, f.token, f.expiry>>)
    /\ UNCHANGED <<now, nextRand, mailbox, consumed, jwtVars, bootVars>>

FP_Set(r) ==
    /\ At(r, "forgot", "fp_set")
    /\ LET f == slots[r]
       IN \E dbErr \in BOOLEAN :
            IF dbErr
            THEN /\ slots' = [slots EXCEPT ![r] =
                                 Respond(f, 500, "Failed to save reset token")]
                 /\ UNCHANGED <<users, setLog>>
            ELSE /\ users' = SetResetToken(f.uid, f.token, f.expiry)
                 /\ setLog' = Append(setLog, <<f.uid, f.token, f.expiry>>)
                 /\ slots' = [slots EXCEPT ![r].pc = "fp_mail"]
    /\ UNCHANGED <<now, nextRand, mailbox, consumed, jwtVars, bootVars>>

FP_Mail(r) ==
    /\ At(r, "forgot", "fp_mail")
    /\ LET f == slots[r]
       IN \E mailErr \in BOOLEAN :
            IF mailErr
            THEN /\ slots' = [slots EXCEPT ![r] =
                                 Respond(f, 500, "Failed to send reset email")]
                 /\ UNCHANGED mailbox
            ELSE /\ mailbox' = Append(mailbox, f.token)
                 /\ slots' = [slots EXCEPT ![r] =
                                 Respond(f, 200, "Reset instructions sent to your email")]
    /\ UNCHANGED <<now, users, nextRand, consumed, setLog, jwtVars, bootVars>>

\* ------------------------------------------------------ ResetPassword
\* the token query parameter and new_password are both required
RP_Start(r, token, newPassword) ==
    /\ FreeSlot(r)
    /\ slots' = [slots EXCEPT ![r] =
          IF token = NoToken
          THEN Respond([Idle EXCEPT !.kind = "reset"], 400, "Reset token is missing")
          ELSE IF newPassword = ""
          THEN Respond([Idle EXCEPT !.kind = "reset", !.token = token],
                       400, "Invalid input data")
          ELSE [Idle EXCEPT !.kind = "reset", !.pc = "rp_verify", !.token = token,
                            !.password = newPassword,
                            !.late = (token \in consumed),
                            !.stale = Superseded(token)]]
    /\ UNCHANGED <<now, users, nextRand, mailbox, consumed, setLog, jwtVars, bootVars>>

\* VerifyResetToken: any error is answered 401
RP_Verify(r) ==
    /\ At(r, "reset", "rp_verify")
    /\ LET f == slots[r]
           owners == ResetTokenOwners(f.token)
           live == \E e \in owners : now < users[e].resetExpiry[1]
       IN \E dbErr \in BOOLEAN :
            slots' = [slots EXCEPT ![r] =
               IF VerifyResetTokenOk(f.token) /\ ~dbErr
               THEN LET e == CHOOSE e \in owners : TRUE
                    IN [f EXCEPT !.pc = "rp_update", !.uid = users[e].id,
                                 !.verified = TRUE, !.vAt = now,
                                 !.vExp = users[e].resetExpiry[1], !.cur = live]
               ELSE Respond([f EXCEPT !.cur = live /\ ~dbErr],
                            401, "Invalid or expired reset token")]
    /\ UNCHANGED <<now, users, nextRand, mailbox, consumed, setLog, jwtVars, bootVars>>

\* HashPassword, then UpdateUserPassword
RP_Update(r) ==
    /\ At(r, "reset", "rp_update")
    /\ LET f == slots[r]
       IN \E hashErr, dbErr \in BOOLEAN :
            IF hashErr
            THEN /\ slots' = [slots EXCEPT ![r] =
                                 Respond(f, 500, "Failed to hash the new password")]
                 /\ UNCHANGED users
            ELSE IF dbErr
            THEN /\ slots' = [slots EXCEPT ![r] =
                                 Respond(f, 500, "Failed to update the password")]
                 /\ UNCHANGED users
            ELSE /\ users' = UpdateUserPassword(f.uid, HashPassword(f.password))
                 /\ slots' = [slots EXCEPT ![r] =
                                 [f EXCEPT !.pc = "rp_clear", !.wrote = TRUE]]
    /\ UNCHANGED <<now, nextRand, mailbox, consumed, setLog, jwtVars, bootVars>>

\* RP_Clear with the ClearResetToken call left out
RP_Clear_NoClear(r) ==
    /\ At(r, "reset", "rp_clear")
    /\ consumed' = consumed \cup {slots[r].token}
    /\ slots' = [slots EXCEPT ![r] = Respond(@, 200, "Password reset successful")]
    /\ UNCHANGED <<now, users, nextRand, mailbox, setLog, jwtVars, bootVars>>

\* ClearResetToken, then 200
RP_Clear(r) ==
    /\ At(r, "reset", "rp_clear")
    /\ LET f == slots[r]
       IN \E dbErr \in BOOLEAN :
            IF dbErr
            THEN /\ slots' = [slots EXCEPT ![r] =
                                 Respond(f, 500, "Failed to clear the reset token")]
                 /\ UNCHANGED <<users, consumed>>
            ELSE /\ users' = ClearResetToken(f.uid)
                 /\ consumed' = consumed \cup {f.token}
                 /\ slots' = [slots EXCEPT ![r] =
                                 Respond(f, 200, "Password reset successful")]
    /\ UNCHANGED <<now, nextRand, mailbox, setLog, jwtVars, bootVars>>

\* the response has been written: the goroutine ends and the slot is free again
Finish(r) ==
    /\ slots[r].pc = "done"
    /\ slots' = [slots EXCEPT ![r] = Idle]
    /\ UNCHANGED <<now, users, nextRand, mailbox, consumed, setLog, jwtVars, bootVars>>

\* the clock advances between requests
Tick ==
    /\ Quiet
    /\ now < MaxTime
    /\ now' = now + 1
    /\ UNCHANGED <<storeVars, jwtVars, bootVars>>

\* ------------------------------------------------- signed tokens (JWT)
\* values os.Getenv("JWT_SECRET") can have when init() reads it
Secrets == {"k1", ""}
\* a key that is not the process secret
OtherKey == "k0"

\* the users GenerateJWTToken is called for
JwtUsers ==
    {[ID |-> 1, Email |-> AdminEmail, Role |-> "admin"],
     [ID |-> 2, Email |-> "a@x.com", Role |-> "general"]}

\* the "alg" values of a token header: three registered signing methods of
\* three kinds (HMAC, RSA, none), and one that is not registered
HmacAlgs == {"HS256", "HS384"}
Algs == HmacAlgs \cup {"RS256", "none", "XX"}

\* the two Go types a Keyfunc returns here
Bytes(str) == <<"[]byte", str>>
String(str) == <<"string", str>>

\* SigningMethodHMAC.Sign: the MAC of the signing string under the key
HMAC(alg, key, signingString) == <<"hmac", alg, key, signingString>>

\* the JSON claims segment: user_id, user_email, user_role, exp (0: no exp)
Payload(id, email, role, exp) == <<id, email, role, exp>>

\* a token string header.claims.signature
Token(alg, payload, sig) == <<alg, payload, sig>>
MalformedToken == <<"not-a-jwt">>

\* GenerateJWTToken with ExpiresAt set to the signing time (the hour left out)
GenerateJWTToken_NoHour(user) ==
    LET payload == Payload(user.ID, user.Email, user.Role, now)
    IN Token("HS256", payload, HMAC("HS256", jwtSecret, <<"HS256", payload>>))

\* GenerateJWTToken: HS256 over the claims, ExpiresAt = now + 1 hour; int(user.ID)
\* keeps the id (ids are database serials)
GenerateJWTToken(user) ==
    LET payload == Payload(user.ID, user.Email, user.Role, now + Hour)
    IN Token("HS256", payload, HMAC("HS256", jwtSecret, <<"HS256", payload>>))

\* the zero Claims value
NoClaims == [UserId |-> 0, UserEmail |-> "", UserRole |-> "", ExpiresAt |-> 0]

\* jwt-go ParseUnverified: three segments, claims decoded, method looked up
Parses(tok) == Len(tok) = 3
DecodeClaims(tok) ==
    [UserId |-> tok[2][1], UserEmail |-> tok[2][2], UserRole |-> tok[2][3],
     ExpiresAt |-> tok[2][4]]
MethodAvailable(tok) == tok[1] \in Algs \ {"XX"}

\* jwt-go SigningMethod.Verify for the token's own method: HMAC wants a []byte
\* key and an equal MAC; RSA wants an *rsa.PublicKey; none wants the
\* UnsafeAllowNoneSignatureType key
SignatureValid(tok, key) ==
    /\ tok[1] \in HmacAlgs
    /\ key[1] = "[]byte"
    /\ tok[3] = HMAC(tok[1], key[2], <<tok[1], tok[2]>>)

\* jwt-go StandardClaims.Valid / MapClaims.Valid: verifyExp is now <= exp,
\* and a token without exp does not expire
ClaimsValid(tok) == tok[2][4] = 0 \/ now <= tok[2][4]

\* jwt-go Parser.ParseWithClaims: token.Valid
ParseValid(tok, key) ==
    /\ Parses(tok)
    /\ MethodAvailable(tok)
    /\ ClaimsValid(tok)
    /\ SignatureValid(tok, key)

\* VerifyJWTToken with the signature check left out (jwt-go ParseUnverified)
VerifyJWTToken_Unverified(tok) ==
    IF ~Parses(tok) THEN [ok |-> FALSE, claims |-> NoClaims]
    ELSE [ok |-> MethodAvailable(tok) /\ ClaimsValid(tok), claims |-> DecodeClaims(tok)]

\* VerifyJWTToken: (claims, ok); the Keyfunc returns []byte(jwtSecret)
VerifyJWTToken(tok) ==
    IF ~Parses(tok) THEN [ok |-> FALSE, claims |-> NoClaims]
    ELSE [ok |-> ParseValid(tok, Bytes(jwtSecret)), claims |-> DecodeClaims(tok)]

\* ValidateJWTToken: err == nil && token.Valid; the Keyfunc returns jwtSecret, a string
ValidateJWTToken(tok) ==
    IF ~Parses(tok) THEN [ok |-> FALSE, claims |-> NoClaims]
    ELSE [ok |-> ParseValid(tok, String(jwtSecret)), claims |-> DecodeClaims(tok)]

\* -------------------------------------------------------------- Login
\* the two 401 answers of Login
UnknownEmailResponse == <<401, "Incorrect email or password">>
WrongPasswordResponse == <<401, "Incorrect password">>

\* ShouldBind: email and password are required
LG_Start(r, email, password) ==
    /\ FreeSlot(r)
    /\ Cardinality(jwtIssued) < MaxJwt
    /\ slots' = [slots EXCEPT ![r] =
          IF email = "" \/ password = ""
          THEN Respond([Idle EXCEPT !.kind = "login"], 400, "Invalid form data")
          ELSE [Idle EXCEPT !.kind = "login", !.pc = "lg_get",
                            !.email = email, !.password = password]]
    /\ UNCHANGED <<now, users, nextRand, mailbox, consumed, setLog, jwtVars, bootVars>>

\* GetUserByEmailID: any error is answered 401
LG_Get(r) ==
    /\ At(r, "login", "lg_get")
    /\ LET f == slots[r]
       IN \E dbErr \in BOOLEAN :
            slots' = [slots EXCEPT ![r] =
               IF GetUserByEmailID(f.email) /\ ~dbErr
               THEN [f EXCEPT !.pc = "lg_issue", !.found = TRUE,
                              !.uid = users[f.email].id,
                              !.hash = users[f.email].hash,
                              !.role = users[f.email].role]
               ELSE Respond(f, UnknownEmailResponse[1], UnknownEmailResponse[2])]
    /\ UNCHANGED <<now, users, nextRand, mailbox, consumed, setLog, jwtVars, bootVars>>

\* the cookie Login sets: Name, Value and Expires only
LoginCookie(token) ==
    [NoCookie EXCEPT !.Name = "jwt-token", !.Value = token, !.Expires = now + Hour]

\* the token Login generates for the user it fetched, as a client holds it
LoginToken(f) ==
    [token |-> GenerateJWTToken([ID |-> f.uid, Email |-> f.email, Role |-> f.role]),
     user |-> [ID |-> f.uid, Email |-> f.email, Role |-> f.role], at |-> now]

\* LG_Issue with the VerifyPassword test left out
LG_Issue_NoVerify(r) ==
    /\ At(r, "login", "lg_issue")
    /\ LET f == slots[r]
           i == LoginToken(f)
       IN /\ slots' = [slots EXCEPT ![r] =
                Respond([f EXCEPT !.jwt = i.token, !.cookie = LoginCookie(i.token)],
                        200, "Login successful")]
          /\ jwtIssued' = jwtIssued \cup {i}
    /\ UNCHANGED <<now, users, nextRand, mailbox, consumed, setLog, jwtSecret,
                   dropped, vSeen, bootVars>>

\* VerifyPassword, GenerateJWTToken, the cookie, 200
LG_Issue(r) ==
    /\ At(r, "login", "lg_issue")
    /\ LET f == slots[r]
           i == LoginToken(f)
       IN \E signErr \in BOOLEAN :
            IF ~VerifyPassword(f.password, f.hash)
            THEN /\ slots' = [slots EXCEPT ![r] =
                       Respond(f, WrongPasswordResponse[1], WrongPasswordResponse[2])]
                 /\ UNCHANGED jwtIssued
            ELSE IF signErr
            THEN /\ slots' = [slots EXCEPT ![r] =
                       Respond(f, 500, "Failed to generate JWT token")]
                 /\ UNCHANGED jwtIssued
            ELSE /\ slots' = [slots EXCEPT ![r] =
                       Respond([f EXCEPT !.jwt = i.token,
                                         !.cookie = LoginCookie(i.token)],
                               200, "Login successful")]
                 /\ jwtIssued' = jwtIssued \cup {i}
    /\ UNCHANGED <<now, users, nextRand, mailbox, consumed, setLog, jwtSecret,
                   dropped, vSeen, bootVars>>

\* Logout: the cookie is overwritten by an empty one that has expired; then
\* c.Redirect(308, "/") and, after it, c.JSON(200, "Logout successful")
LO_Start(r) ==
    /\ FreeSlot(r)
    /\ slots' = [slots EXCEPT ![r] =
          Respond(Redirect([Idle EXCEPT !.kind = "logout",
                               !.cookie = [NoCookie EXCEPT !.Name = "jwt-token",
                                              !.Path = "/", !.SameSite = "None",
                                              !.HttpOnly = TRUE, !.Secure = TRUE]],
                           308),
                  200, "Logout successful")]
    /\ dropped' = {i.token : i \in jwtIssued}
    /\ UNCHANGED <<now, users, nextRand, mailbox, consumed, setLog, jwtSecret,
                   jwtIssued, vSeen, bootVars>>

\* ------------------------------------------------------ GetCurrentUser
\* GC_Start that also refuses a token a Logout has dropped
GC_Start_CheckDropped(r, cookie) ==
    /\ FreeSlot(r)
    /\ LET res == VerifyJWTToken(cookie)
           f == [Idle EXCEPT !.kind = "current", !.jwt = cookie]
       IN slots' = [slots EXCEPT ![r] =
             IF cookie = <<>> \/ ~res.ok \/ cookie \in dropped
             THEN Respond(f, 401, "Unauthorized")
             ELSE [f EXCEPT !.pc = "gc_get", !.valid = TRUE,
                            !.email = res.claims.UserEmail]]
    /\ UNCHANGED <<now, users, nextRand, mailbox, consumed, setLog, jwtVars, bootVars>>

\* the jwt-token cookie of the request (<<>>: none), VerifyJWTToken
GC_Start(r, cookie) ==
    /\ FreeSlot(r)
    /\ LET res == VerifyJWTToken(cookie)
           f == [Idle EXCEPT !.kind = "current", !.jwt = cookie]
       IN slots' = [slots EXCEPT ![r] =
             IF cookie = <<>> \/ ~res.ok
             THEN Respond(f, 401, "Unauthorized")
             ELSE [f EXCEPT !.pc = "gc_get", !.valid = TRUE,
                            !.email = res.claims.UserEmail]]
    /\ UNCHANGED <<now, users, nextRand, mailbox, consumed, setLog, jwtVars, bootVars>>

\* GetUserByEmailID for the user_email claim, then the user as the body
GC_Get(r) ==
    /\ At(r, "current", "gc_get")
    /\ \E dbErr \in BOOLEAN :
          slots' = [slots EXCEPT ![r] =
             IF GetUserByEmailID(slots[r].email) /\ ~dbErr
             THEN Respond([@ EXCEPT !.found = TRUE], 200, "user")
             ELSE Respond(@, 500, "Error retrieving user")]
    /\ UNCHANGED <<now, users, nextRand, mailbox, consumed, setLog, jwtVars, bootVars>>

\* ---- the Authorization header
\* len("Bearer ")
BearerLen == 7
Bearer == <<"B", "e", "a", "r", "e", "r", " ">>

\* A header value is the characters of scheme followed by the token string
\* (<<>>: by nothing); a token string is longer than the prefix.
Header(scheme, tok) == [scheme |-> scheme, token |-> tok]
NoHeader == Header(<<>>, <<>>)
HasPrefix(h) ==
    Len(h.scheme) >= BearerLen /\ SubSeq(h.scheme, 1, BearerLen) = Bearer

\* tokenString[len("Bearer "):]: out of range when the string is shorter than
\* the prefix, the rest of the string otherwise (a cut inside the token leaves
\* a string that is no token)
TooShort(h) == Len(h.scheme) < BearerLen /\ h.token = <<>>
CutPrefix(h) ==
    IF Len(h.scheme) >= BearerLen
    THEN Header(SubSeq(h.scheme, BearerLen + 1, Len(h.scheme)), h.token)
    ELSE Header(<<>>, MalformedToken)

\* the token a string is, for the parser
AsToken(str) ==
    IF str.scheme = <<>> /\ str.token # <<>> THEN str.token ELSE MalformedToken

\* ExtractClaims: (nil, false) for the empty header; otherwise the first seven
\* characters are cut off, whatever they are, and the rest goes to
\* ValidateJWTToken; jwt.Parse decodes into MapClaims, so the type assertion holds
ExtractClaims(h) ==
    IF h = NoHeader
    THEN [panic |-> FALSE, str |-> NoHeader, ok |-> FALSE, claims |-> NoClaims]
    ELSE IF TooShort(h)
    THEN [panic |-> TRUE, str |-> NoHeader, ok |-> FALSE, claims |-> NoClaims]
    ELSE LET res == ValidateJWTToken(AsToken(CutPrefix(h)))
         IN [panic |-> FALSE, str |-> CutPrefix(h), ok |-> res.ok,
             claims |-> IF res.ok THEN res.claims ELSE NoClaims]

\* what a client can make of a token it holds: any header, the claims as they
\* are or with the role or the expiry changed, and as signature the one it
\* holds, none, or the signature of the method named in the header under the
\* process secret or under another key
ForgeSig(alg, key, signingString) ==
    IF alg \in HmacAlgs THEN HMAC(alg, key, signingString)
    ELSE IF alg = "RS256" THEN <<"rsa", key, signingString>>
    ELSE <<>>

Variants(tok) ==
    LET p == tok[2]
        payloads == {p, Payload(p[1], p[2], "admin", p[4]),
                     Payload(p[1], p[2], p[3], p[4] + Hour),
                     Payload(p[1], p[2], p[3], 0)}
    IN UNION {{Token(h, q, tok[3]), Token(h, q, <<>>),
               Token(h, q, ForgeSig(h, jwtSecret, <<h, q>>)),
               Token(h, q, ForgeSig(h, OtherKey, <<h, q>>))} :
              h \in Algs, q \in payloads}

IssuedTokens == {i.token : i \in jwtIssued}
Presentable == UNION {Variants(t) : t \in IssuedTokens} \cup {MalformedToken}

\* the header values a client sends with a token it holds
Schemes == {<<>>, Bearer, SubSeq(Bearer, 1, BearerLen - 1),
            <<"D", "i", "g", "e", "s", "t", " ">>, Bearer \o Bearer}
Headers ==
    {Header(sch, t) : sch \in Schemes, t \in IssuedTokens \cup {<<>>}}
        \cup {Header(Bearer, t) : t \in Presentable}

\* fn: the function called; token: the token string it parsed; header, str:
\* the header ExtractClaims was given and the string it went on with; panic:
\* the call did not return
NoCall == [fn |-> "none", token |-> <<>>, at |-> 0,
           res |-> [ok |-> FALSE, claims |-> NoClaims],
           header |-> NoHeader, str |-> NoHeader, panic |-> FALSE]

\* a call of GenerateJWTToken
JwtIssue(user) ==
    /\ vSeen = NoCall
    /\ Cardinality(jwtIssued) < MaxJwt
    /\ jwtIssued' = jwtIssued \cup
          {[token |-> GenerateJWTToken(user), user |-> user, at |-> now]}
    /\ UNCHANGED <<now, storeVars, jwtSecret, dropped, vSeen, bootVars>>

\* a call of VerifyJWTToken
JwtVerify(tok) ==
    /\ vSeen = NoCall
    /\ vSeen' = [NoCall EXCEPT !.fn = "VerifyJWTToken", !.token = tok, !.at = now,
                                !.res = VerifyJWTToken(tok)]
    /\ UNCHANGED <<now, storeVars, jwtSecret, jwtIssued, dropped, bootVars>>

\* a call of ValidateJWTToken
JwtValidate(tok) ==
    /\ vSeen = NoCall
    /\ vSeen' = [NoCall EXCEPT !.fn = "ValidateJWTToken", !.token = tok, !.at = now,
                                !.res = ValidateJWTToken(tok)]
    /\ UNCHANGED <<now, storeVars, jwtSecret, jwtIssued, dropped, bootVars>>

\* a call of ExtractClaims with a request carrying the header
JwtExtract(h) ==
    /\ vSeen = NoCall
    /\ LET x == ExtractClaims(h)
       IN vSeen' = [NoCall EXCEPT !.fn = "ExtractClaims",
                                  !.token = IF x.str = NoHeader THEN <<>>
                                            ELSE AsToken(x.str),
                                  !.at = now,
                                  !.res = [ok |-> x.ok, claims |-> x.claims],
                                  !.header = h, !.str = x.str, !.panic = x.panic]
    /\ UNCHANGED <<now, storeVars, jwtSecret, jwtIssued, dropped, bootVars>>

\* the caller has used the result (a panic has been recovered)
JwtReturn ==
    /\ vSeen # NoCall
    /\ vSeen' = NoCall
    /\ UNCHANGED <<now, storeVars, jwtSecret, jwtIssued, dropped, bootVars>>

\* the clock, between two calls
JwtTick ==
    /\ vSeen = NoCall
    /\ Tick

\* ------------------------------------------------------------ startup
\* os.Getenv: the empty string for a variable that is not set
Getenv(e) == IF e = <<>> THEN "" ELSE e[1]

\* the process serves requests once package initialisation and main's setup ran
Serving == Len(boot) = 2

\* package utils init(): GetSecretKey, before main starts
UtilsInit ==
    /\ boot = <<>>
    /\ jwtSecret' = Getenv(env)
    /\ boot' = Append(boot, "init")
    /\ UNCHANGED <<now, storeVars, jwtIssued, dropped, vSeen, env, dotenv>>

\* main: loadEnvVariables; godotenv.Load sets the variables of .env that the
\* environment does not have, and a missing file is only logged
LoadEnvVariables ==
    /\ boot = <<"init">>
    /\ env' = IF env = <<>> THEN dotenv ELSE env
    /\ boot' = Append(boot, "loadEnvVariables")
    /\ UNCHANGED <<now, storeVars, jwtVars, dotenv>>

Init ==
    /\ now = 0
    /\ users = [e \in Emails |-> NoRow]
    /\ slots = [r \in Slots |-> Idle]
    /\ nextRand = 0
    /\ mailbox = <<>>
    /\ consumed = {}
    /\ jwtSecret = "k1"
    /\ jwtIssued = {}
    /\ dropped = {}
    /\ vSeen = NoCall
    /\ setLog = <<>>
    /\ env = <<"k1">>
    /\ dotenv = <<>>
    /\ boot = <<"init", "loadEnvVariables">>

\* the inputs of the requests
SignUpEmails == Emails \cup {""}
SignUpPasswords == {"secret123", ""}
ForgotEmails == Emails \cup {""}
ResetTokens == Mailed \cup {NoToken, GarbageToken}
ResetPasswords == {"newpass", ""}
LoginEmails == Emails \cup {""}
LoginPasswords == SignUpPasswords \cup {"wrong"}

\* The server with its requests served one after the other, and the clock.
Next ==
    \/ \E r \in Slots, e \in SignUpEmails, p \in SignUpPasswords :
          Quiet /\ SU_Start(r, e, p)
    \/ \E r \in Slots : SU_Get(r)
    \/ \E r \in Slots : SU_Register(r)
    \/ \E r \in Slots, e \in ForgotEmails : Quiet /\ FP_Start(r, e)
    \/ \E r \in Slots : FP_Get(r)
    \/ \E r \in Slots : FP_Gen(r)
    \/ \E r \in Slots : FP_Set(r)
    \/ \E r \in Slots : FP_Mail(r)
    \/ \E r \in Slots, t \in ResetTokens, p \in ResetPasswords :
          Quiet /\ RP_Start(r, t, p)
    \/ \E r \in Slots : RP_Verify(r)
    \/ \E r \in Slots : RP_Update(r)
    \/ \E r \in Slots : RP_Clear(r)
    \/ \E r \in Slots : Finish(r)
    \/ Tick

Spec == Init /\ [][Next]_vars

\* The server with its SignUp, Login and Logout requests served one after the
\* other, and the clock.
LoginNext ==
    \/ \E r \in Slots, e \in SignUpEmails, p \in SignUpPasswords :
          Quiet /\ SU_Start(r, e, p)
    \/ \E r \in Slots : SU_Get(r)
    \/ \E r \in Slots : SU_Register(r)
    \/ \E r \in Slots, e \in LoginEmails, p \in LoginPasswords :
          Quiet /\ LG_Start(r, e, p)
    \/ \E r \in Slots : LG_Get(r)
    \/ \E r \in Slots : LG_Issue(r)
    \/ \E r \in Slots : Quiet /\ LO_Start(r)
    \/ \E r \in Slots : Finish(r)
    \/ Tick

LoginSpec == Init /\ [][LoginNext]_vars

\* The server with all its handlers and one account, the requests served one
\* after the other and well-formed, and the clock; a client presents any token
\* it was issued.
SessionEmails == {"a@x.com"}
SessionLogins == {"secret123", "wrong"}
Cookies == {i.token : i \in jwtIssued} \cup {<<>>, MalformedToken}

SessionNext ==
    \/ \E r \in Slots, e \in SessionEmails : Quiet /\ SU_Start(r, e, "secret123")
    \/ \E r \in Slots : SU_Get(r)
    \/ \E r \in Slots : SU_Register(r)
    \/ \E r \in Slots, e \in SessionEmails, p \in SessionLogins : Quiet /\ LG_Start(r, e, p)
    \/ \E r \in Slots : LG_Get(r)
    \/ \E r \in Slots : LG_Issue(r)
    \/ \E r \in Slots : Quiet /\ LO_Start(r)
    \/ \E r \in Slots, c \in Cookies : Quiet /\ GC_Start(r, c)
    \/ \E r \in Slots : GC_Get(r)
    \/ \E r \in Slots, e \in SessionEmails : Quiet /\ FP_Start(r, e)
    \/ \E r \in Slots : FP_Get(r)
    \/ \E r \in Slots : FP_Gen(r)
    \/ \E r \in Slots : FP_Set(r)
    \/ \E r \in Slots : FP_Mail(r)
    \/ \E r \in Slots, t \in Mailed : Quiet /\ RP_Start(r, t, "newpass")
    \/ \E r \in Slots : RP_Verify(r)
    \/ \E r \in Slots : RP_Update(r)
    \/ \E r \in Slots : RP_Clear(r)
    \/ \E r \in Slots : Finish(r)
    \/ Tick

SessionSpec == Init /\ [][SessionNext]_vars

\* The server with up to NumSlots requests in flight at once; the clock stands still.
ConcNext ==
    \/ \E r \in Slots, e \in SignUpEmails, p \in SignUpPasswords : SU_Start(r, e, p)
    \/ \E r \in Slots : SU_Get(r)
    \/ \E r \in Slots : SU_Register(r)
    \/ \E r \in Slots, e \in ForgotEmails : FP_Start(r, e)
    \/ \E r \in Slots : FP_Get(r)
    \/ \E r \in Slots : FP_Gen(r)
    \/ \E r \in Slots : FP_Set(r)
    \/ \E r \in Slots : FP_Mail(r)
    \/ \E r \in Slots, t \in ResetTokens, p \in ResetPasswords : RP_Start(r, t, p)
    \/ \E r \in Slots : RP_Verify(r)
    \/ \E r \in Slots : RP_Update(r)
    \/ \E r \in Slots : RP_Clear(r)
    \/ \E r \in Slots : Finish(r)

ConcSpec == Init /\ [][ConcNext]_vars

\* The server with its ForgotPassword requests arriving at any time, next to
\* whatever is in flight (up to NumSlots requests at once); a SignUp or a
\* ResetPassword arrives while no request is in flight.  The clock stands still.
RaceNext ==
    \/ \E r \in Slots, e \in Emails : Quiet /\ SU_Start(r, e, "secret123")
    \/ \E r \in Slots : SU_Get(r)
    \/ \E r \in Slots : SU_Register(r)
    \/ \E r \in Slots, e \in Emails : FP_Start(r, e)
    \/ \E r \in Slots : FP_Get(r)
    \/ \E r \in Slots : FP_Gen(r)
    \/ \E r \in Slots : FP_Set(r)
    \/ \E r \in Slots : FP_Mail(r)
    \/ \E r \in Slots, t \in Mailed : Quiet /\ RP_Start(r, t, "newpass")
    \/ \E r \in Slots : RP_Verify(r)
    \/ \E r \in Slots : RP_Update(r)
    \/ \E r \in Slots : RP_Clear(r)
    \/ \E r \in Slots : Finish(r)

RaceSpec == Init /\ [][RaceNext]_vars

\* The token functions alone: tokens are issued for users drawn from JwtUsers
\* and any variant of an issued token is verified, under either secret.
JwtInit ==
    /\ now = 0
    /\ users = [e \in Emails |-> NoRow]
    /\ slots = [r \in Slots |-> Idle]
    /\ nextRand = 0
    /\ mailbox = <<>>
    /\ consumed = {}
    /\ jwtSecret \in Secrets
    /\ jwtIssued = {}
    /\ dropped = {}
    /\ vSeen = NoCall
    /\ setLog = <<>>
    /\ env = <<jwtSecret>>
    /\ dotenv = <<>>
    /\ boot = <<"init", "loadEnvVariables">>

JwtNext ==
    \/ \E u \in JwtUsers : JwtIssue(u)
    \/ \E t \in Presentable : JwtVerify(t)
    \/ \E t \in Presentable : JwtValidate(t)
    \/ \E h \in Headers : JwtExtract(h)
    \/ JwtReturn
    \/ JwtTick

JwtSpec == JwtInit /\ [][JwtNext]_vars

\* The process from its start: package initialisation, main's setup, then the
\* token functions.
EnvValues == {<<>>, <<"k1">>}
DotenvValues == {<<>>, <<"k1">>, <<"k2">>}

BootInit ==
    /\ now = 0
    /\ users = [e \in Emails |-> NoRow]
    /\ slots = [r \in Slots |-> Idle]
    /\ nextRand = 0
    /\ mailbox = <<>>
    /\ consumed = {}
    /\ jwtSecret = ""
    /\ jwtIssued = {}
    /\ dropped = {}
    /\ vSeen = NoCall
    /\ setLog = <<>>
    /\ env \in EnvValues
    /\ dotenv \in DotenvValues
    /\ boot = <<>>

BootNext ==
    \/ UtilsInit
    \/ LoadEnvVariables
    \/ \E u \in JwtUsers : Serving /\ JwtIssue(u)
    \/ \E t \in IssuedTokens : Serving /\ JwtVerify(t)
    \/ Serving /\ JwtReturn
    \/ Serving /\ JwtTick

BootSpec == BootInit /\ [][BootNext]_vars

\* ======================================================== the claims
ResetSlots == {r \in Slots : slots[r].kind = "reset"}

\* the request did not get past VerifyResetToken and wrote nothing
Refused(r) ==
    /\ ~slots[r].verified
    /\ ~slots[r].wrote
    /\ slots[r].pc \in {"rp_verify", "done"}
    /\ slots[r].pc = "done" => slots[r].status = 401

\* C1: once a ResetPassword with a token has answered 200, every ResetPassword
\* that arrives later with the same token is refused (401) and writes no
\* password, and the token is stored for no user.
C1_SingleUse ==
    /\ \A r \in ResetSlots : slots[r].late => Refused(r)
    /\ \A t \in consumed : ResetTokenOwners(t) = {}

C1_Witness ==
    \E r \in ResetSlots : slots[r].late /\ slots[r].pc = "done" /\ slots[r].status = 401

\* C2: of the ResetPassword requests in flight with the same token, at most one
\* writes the user's password hash.
C2_AtMostOneUpdate ==
    \A r1, r2 \in ResetSlots :
        (r1 # r2 /\ slots[r1].token = slots[r2].token)
            => ~(slots[r1].wrote /\ slots[r2].wrote)

\* C3: a reset token is expired exactly when its stored expiry is at or before
\* the clock (IsTokenExpired(expiry) iff expiry <= now), and VerifyResetToken
\* accepts a token only at a time strictly before its stored expiry.
C3_ExpiredAtOrAfterExpiry ==
    /\ \A e \in Registered :
          users[e].resetToken # NoToken =>
              (IsTokenExpired(users[e].resetExpiry[1]) <=> users[e].resetExpiry[1] <= now)
    /\ \A r \in ResetSlots : slots[r].verified => slots[r].vAt < slots[r].vExp

\* C8: a token mailed before a later answered ForgotPassword of the same user is
\* stored for no user, and a ResetPassword arriving with it is refused (401)
\* and writes no password.
C8_Supersession ==
    /\ \A r \in ResetSlots : slots[r].stale => Refused(r)
    /\ \A t \in Mailed : Superseded(t) => ResetTokenOwners(t) = {}

C8_Witness ==
    \E r \in ResetSlots : slots[r].stale /\ slots[r].pc = "done" /\ slots[r].status = 401

StoreFailures == {"Failed to update the password", "Failed to clear the reset token"}

\* the request's token was the stored token of a user, checked strictly before
\* its expiry, and the request has returned
ServedInTime(r) == slots[r].pc = "done" /\ slots[r].cur

Succeeded(r) ==
    /\ slots[r].status = 200
    /\ users[EmailOfId(slots[r].uid)].hash = HashPassword(slots[r].password)

C10_ClearedAfterWrite ==
    \A r \in ResetSlots :
        (slots[r].pc = "done" /\ slots[r].wrote) => ResetTokenOwners(slots[r].token) = {}

Verified == vSeen.fn = "VerifyJWTToken" /\ vSeen.res.ok

\* C4: VerifyJWTToken accepts an issued token only at a time strictly before
\* its expiry, issuance time + 1 hour.
C4_ExpiryStrict ==
    \A i \in jwtIssued :
        (Verified /\ vSeen.token = i.token) => vSeen.at < i.at + Hour

\* C5: VerifyJWTToken of a token GenerateJWTToken issued for a user, called
\* before issuance time + 1 hour under the same non-empty secret, returns ok
\* with the user's id, email and role and with expiry issuance time + 1 hour.
C5_RoundTrip ==
    \A i \in jwtIssued :
        (/\ vSeen.fn = "VerifyJWTToken"
         /\ vSeen.token = i.token
         /\ vSeen.at < i.at + Hour
         /\ jwtSecret # "")
            => /\ vSeen.res.ok
               /\ vSeen.res.claims = [UserId |-> i.user.ID, UserEmail |-> i.user.Email,
                                      UserRole |-> i.user.Role, ExpiresAt |-> i.at + Hour]

C5_Witness ==
    \E i \in jwtIssued :
        /\ Verified /\ vSeen.token = i.token /\ jwtSecret # ""
        /\ vSeen.at = i.at + Hour - 1
        /\ vSeen.res.claims.UserRole = "general"

\* C6: VerifyJWTToken returns ok only for a token whose signature is the MAC of
\* its own header and claims under the process secret; a token that differs
\* from an issued one in the signature alone, or in the claims alone, is rejected.
C6_TamperRejection ==
    /\ Verified =>
          vSeen.token[3] =
              HMAC(vSeen.token[1], jwtSecret, <<vSeen.token[1], vSeen.token[2]>>)
    /\ \A t \in IssuedTokens :
          (/\ vSeen.fn = "VerifyJWTToken"
           /\ Len(vSeen.token) = 3
           /\ vSeen.token # t
           /\ vSeen.token[1] = t[1]
           /\ vSeen.token[2] = t[2] \/ vSeen.token[3] = t[3])
              => ~vSeen.res.ok

C6_Witness ==
    \E t \in IssuedTokens :
        /\ vSeen.fn = "VerifyJWTToken" /\ ~vSeen.res.ok
        /\ vSeen.token[1] = t[1] /\ vSeen.token[2] = t[2]
        /\ vSeen.token[3] = HMAC(t[1], OtherKey, <<t[1], t[2]>>)
        /\ vSeen.at < t[2][4]

\* C7: VerifyJWTToken and ValidateJWTToken accept no token whose header names an
\* algorithm other than HS256.
C7_AlgorithmPinned ==
    vSeen.res.ok => vSeen.token[1] = "HS256"

\* C11: once the process serves, jwtSecret is the JWT_SECRET of the environment
\* as loadEnvVariables completed it, and it was read once, after loadEnvVariables.
C11_SecretFromConfig ==
    Serving =>
        /\ jwtSecret = Getenv(env)
        /\ boot = <<"loadEnvVariables", "init">>

\* C12: under the empty secret GenerateJWTToken issues no token and no
\* token-checking function returns ok.
C12_FailFast ==
    jwtSecret = "" => (jwtIssued = {} /\ ~vSeen.res.ok)

\* C13: ExtractClaims does not panic; for a header that does not start with
\* "Bearer " it returns failure without passing anything to the verifier; for
\* a header that does, it goes on with the header less one prefix.
C13_BearerPrefix ==
    vSeen.fn = "ExtractClaims" =>
        /\ ~vSeen.panic
        /\ ~HasPrefix(vSeen.header) => (~vSeen.res.ok /\ vSeen.str = NoHeader)
        /\ HasPrefix(vSeen.header) => vSeen.str = CutPrefix(vSeen.header)

\* C14: ExtractClaims on "Bearer " + t returns ok exactly when VerifyJWTToken(t)
\* does, at the same time under the same secret, and then with the same claims.
C14_UniformTransports ==
    (vSeen.fn = "ExtractClaims" /\ vSeen.header.scheme = Bearer) =>
        LET c == VerifyJWTToken(vSeen.header.token)
        IN /\ vSeen.res.ok = c.ok
           /\ c.ok => vSeen.res.claims = c.claims

LoginSlots == {r \in Slots : slots[r].kind = "login" /\ slots[r].pc = "done"}

\* the credentials of the request are those of a stored user
CredentialsOk(r) ==
    /\ slots[r].email \in Registered
    /\ VerifyPassword(slots[r].password, users[slots[r].email].hash)

TokenHandedOut(r) == slots[r].jwt # <<>>

\* C15: Login answers 200 with a token in the body and in the jwt-token cookie
\* exactly when GetUserByEmailID returned the user, the password verifies
\* against the stored hash and signing succeeded; the token's claims are the
\* id, email and role of the stored user; with an unknown email or a wrong
\* password the answer is 401 with no token and no cookie.
C15_TokenAfterVerification ==
    \A r \in LoginSlots :
        /\ TokenHandedOut(r) <=> slots[r].status = 200
        /\ TokenHandedOut(r) <=> slots[r].cookie # NoCookie
        /\ TokenHandedOut(r) <=>
              (/\ slots[r].found /\ CredentialsOk(r)
               /\ slots[r].msg # "Failed to generate JWT token")
        /\ TokenHandedOut(r) =>
              /\ slots[r].cookie.Value = slots[r].jwt
              /\ LET c == DecodeClaims(slots[r].jwt)
                     u == users[slots[r].email]
                 IN /\ c.UserId = u.id /\ c.UserEmail = slots[r].email
                    /\ c.UserRole = u.role
        /\ (slots[r].email # "" /\ slots[r].password # "" /\ ~CredentialsOk(r)) =>
              (slots[r].status = 401 /\ ~TokenHandedOut(r) /\ slots[r].cookie = NoCookie)

C15_Witness ==
    \E r \in LoginSlots :
        /\ TokenHandedOut(r) /\ slots[r].status = 200
        /\ slots[r].email = "a@x.com" /\ slots[r].password = "secret123"
        /\ DecodeClaims(slots[r].jwt) =
              [UserId |-> users["a@x.com"].id, UserEmail |-> "a@x.com",
               UserRole |-> "general", ExpiresAt |-> now + Hour]

\* C18: a cookie carrying an issued token is named jwt-token, is HttpOnly and
\* Secure with SameSite=None, and expires when the token does.
C18_CookieAttributes ==
    \A r \in LoginSlots :
        TokenHandedOut(r) =>
            /\ slots[r].cookie.Name = "jwt-token"
            /\ slots[r].cookie.HttpOnly /\ slots[r].cookie.Secure
            /\ slots[r].cookie.SameSite = "None"
            /\ slots[r].cookie.Expires = DecodeClaims(slots[r].jwt).ExpiresAt

\* C19: a Login that fails on a wrong password for a registered email is
\* answered with the status and message a Login with an unknown email gets.
C19_UniformFailure ==
    \A r \in LoginSlots :
        (slots[r].found /\ ~VerifyPassword(slots[r].password, slots[r].hash))
            => <<slots[r].status, slots[r].msg>> = UnknownEmailResponse

\* C20: a reset token is determined by the time and the random bytes drawn:
\* the same draw at the same time for any other user gives the same token.
C20_NoUserData ==
    \A t \in Mailed : \A e \in Emails :
        GeneratePasswordResetToken(e, t[2], t[3]) = t

\* the SetResetToken calls served for user id, in order
WritesOf(id) == SelectSeq(setLog, LAMBDA w : w[1] = id)

\* C16: the reset token and expiry stored for a user are those of the last
\* SetResetToken served for the user (always so while no ResetPassword has
\* run), and the token of every earlier SetResetToken is stored for no user
\* and cannot be validated.
C16_LastWriteWins ==
    \A e \in Registered :
        LET w == WritesOf(users[e].id)
            last == w[Len(w)]
        IN w # <<>> =>
             /\ (users[e].resetToken # NoToken \/ (consumed = {} /\ ResetSlots = {}))
                   => (/\ users[e].resetToken = last[2]
                       /\ users[e].resetExpiry = <<last[3]>>)
             /\ \A i \in 1..(Len(w) - 1) :
                   ResetTokenOwners(w[i][2]) = {} /\ ~VerifyResetTokenOk(w[i][2])

C16_Witness ==
    \E r1, r2 \in Slots :
        /\ r1 # r2
        /\ slots[r1].kind = "forgot" /\ slots[r1].pc = "fp_mail"
        /\ slots[r2].kind = "forgot" /\ slots[r2].pc = "fp_mail"
        /\ slots[r1].uid = slots[r2].uid
        /\ WritesOf(slots[r1].uid) =
              << <<slots[r1].uid, slots[r1].token, slots[r1].expiry>>,
                 <<slots[r2].uid, slots[r2].token, slots[r2].expiry>> >>
        /\ users[slots[r1].email].resetToken = slots[r2].token
        /\ VerifyResetTokenOk(slots[r2].token) /\ ~VerifyResetTokenOk(slots[r1].token)

\* C17: each user's stored reset token and reset-token expiry are both set or
\* both absent.
C17_PairedResetFields ==
    \A e \in Emails :
        (users[e].resetToken = NoToken) <=> (users[e].resetExpiry = NoExpiry)

C17_Witness ==
    \E e \in Registered :
        /\ users[e].resetToken = NoToken /\ users[e].resetExpiry = NoExpiry
        /\ WritesOf(users[e].id) # <<>>
        /\ \E r1, r2 \in Slots : r1 # r2 /\ slots[r1].kind = "forgot"
                                  /\ slots[r2].kind = "reset" /\ slots[r2].wrote

\* C25: a handler that has returned has written exactly one response.
C25_OneResponse ==
    \A r \in Slots : slots[r].pc = "done" => slots[r].writes = 1

\* C24: ResetPassword writes a password hash only when the token it was given
\* was stored for a user and not expired (the clock before the stored expiry)
\* when VerifyResetToken looked it up; a request with an empty token, an empty
\* password, an unknown token or an expired token is answered with an error
\* and writes nothing.
C24_RejectedResetChangesNothing ==
    \A r \in ResetSlots :
        /\ slots[r].wrote => slots[r].cur
        /\ (slots[r].pc = "done" /\ ~slots[r].cur) => slots[r].status \in {400, 401}

ForgotAnswered == {r \in Slots : slots[r].kind = "forgot" /\ slots[r].pc = "done"
                                 /\ slots[r].status = 200}

\* the token of every mail was generated and then stored by a SetResetToken
\* that succeeded, for the user of the mail, with expiry generation time + 1 hour
MailedAfterSet ==
    \A i \in 1..Len(mailbox) :
        \E j \in 1..Len(setLog) :
            setLog[j] = <<users[mailbox[i][1]].id, mailbox[i], mailbox[i][2] + Hour>>

StoredFor(r) ==
    /\ users[slots[r].email].resetToken = slots[r].token
    /\ users[slots[r].email].resetExpiry = <<slots[r].expiry>>

\* C23 as stated: a reset mail is sent only after the token was generated and
\* SetResetToken succeeded, and when ForgotPassword has sent the mail and
\* answers success the token is stored for the user with expiry request time
\* + 1 hour.
C23_MailAfterPersistAsStated ==
    /\ MailedAfterSet
    /\ \A r \in ForgotAnswered :
          slots[r].expiry = slots[r].token[2] + Hour /\ StoredFor(r)

\* C23 (amended): as C23, where the token is stored for the user when the mail
\* has been sent unless, after this request's SetResetToken, the store served
\* a SetResetToken of another ForgotPassword for the user or cleared the
\* user's token.
C23_MailAfterPersist ==
    /\ MailedAfterSet
    /\ \A r \in ForgotAnswered :
          /\ slots[r].expiry = slots[r].token[2] + Hour
          /\ LET w == WritesOf(slots[r].uid)
             IN \/ StoredFor(r)
                \/ w[Len(w)][2] # slots[r].token
                \/ users[slots[r].email].resetToken = NoToken

C23_Witness ==
    \E r \in ForgotAnswered, q \in Slots :
        /\ StoredFor(r) /\ slots[r].token \in Mailed
        /\ slots[q].kind = "forgot" /\ slots[q].pc = "fp_set"
        /\ slots[q].email = slots[r].email

CurrentSlots == {r \in Slots : slots[r].kind = "current"}

\* C21: when GetCurrentUser verifies the token of its cookie, the step
\* changes nothing in the store, and a token that Login issued is found valid
\* exactly when the clock has not passed the token's expiry (issue time + 1
\* hour), whatever the store holds and whatever SignUp, Login, Logout,
\* ForgotPassword and ResetPassword requests were served since it was issued.
C21_ValidityFromTokenOnly ==
    [][\A r \in Slots :
          (slots[r].kind = "idle" /\ slots'[r].kind = "current") =>
             /\ UNCHANGED <<users, mailbox, consumed, setLog>>
             /\ \A i \in jwtIssued :
                   slots'[r].jwt = i.token =>
                      (slots'[r].valid <=> now <= i.at + Hour)]_vars

\* a token is accepted after a Logout told the browser to drop it and after
\* the password of its user was reset
C21_Witness ==
    \E r \in CurrentSlots :
        /\ slots[r].valid /\ slots[r].pc = "done" /\ slots[r].status = 200
        /\ slots[r].jwt \in dropped
        /\ users[slots[r].email].hash = HashPassword("newpass")

\* C22: no retry, fail immediately: once a store call of a request has
\* failed, the request performs no store write and sends no mail, and the
\* step in which a handler meets a failure (answered 5xx) writes nothing.
C22_FailImmediately ==
    [][\A r \in Slots :
          /\ slots[r].failed => UNCHANGED <<users, mailbox, setLog>>
          /\ (slots[r].pc # "done" /\ slots'[r].pc = "done"
                 /\ slots'[r].status >= 500) =>
                UNCHANGED <<users, mailbox, setLog>>]_vars

====
